---- MODULE Spec2Model ----
(***************************************************************************)
(* A model of the BMP280 I2C/IIO driver: device setup over the bus         *)
(* (bmp280.c), the channel table, the channel resolver and the triggered   *)
(* buffer handler (bmp280-iio.c).                                          *)
(*                                                                         *)
(* Machine integers are little-endian byte sequences (index 1 is the least *)
(* significant byte), so that the 32 and 64 bit arithmetic of the driver   *)
(* wraps as it does on the machine and so that a buffer cell is the bytes  *)
(* the handler stores.                                                     *)
(***************************************************************************)
EXTENDS Integers, Sequences, FiniteSets, TLC

\* ------------------------------------------------------------ bmp280.h

BMP280_ID == 88
BMP280_ID_REG == 208
BMP280_CTRL_MEAS_REG_ADDRESS == 244
BMP280_CONFIG_REG_ADDRESS == 245
BMP280_TEMP_CALIBRATION_BASE_REG_ADDRESS == 136
BMP280_TEMP_RAW_REG_ADDRESS == 250
BMP280_PRESS_CALIBRATION_BASE_REG_ADDRESS == 142
BMP280_PRESS_RAW_REG_ADDRESS == 247

\* ------------------------------------------------- machine arithmetic

Byte == 0..255

Pow2(k) == CASE k = 0 -> 1 [] k = 1 -> 2 [] k = 2 -> 4 [] k = 3 -> 8
             [] k = 4 -> 16 [] k = 5 -> 32 [] k = 6 -> 64 [] k = 7 -> 128
             [] k = 8 -> 256

\* The function fn on 1..n as the sequence <<fn[1], ..., fn[n]>>, every
\* element evaluated.
RECURSIVE TabRec(_, _, _)
TabRec(fn, n, acc) ==
  IF Len(acc) >= n THEN acc
  ELSE TabRec(fn, n, Append(acc, fn[Len(acc) + 1]))

Tab(fn, n) == TabRec(fn, n, <<>>)

\* The n-byte two's complement representation of the integer v
\* (v within the 32 bit range of the model checker's integers).
FromInt(v, n) ==
  Tab([idx \in 1..n |->
         CASE idx = 1 -> v % 256
           [] idx = 2 -> (v \div 256) % 256
           [] idx = 3 -> (v \div 65536) % 256
           [] idx = 4 -> (v \div 16777216) % 256
           [] OTHER -> IF v < 0 THEN 255 ELSE 0], n)

IsNeg(a) == a[Len(a)] >= 128

IsZero(a) == \A idx \in 1..Len(a) : a[idx] = 0

\* The integer a 4-byte word stands for, read as signed 32 bit.
ToS32(a) ==
  a[1] + 256 * a[2] + 65536 * a[3]
    + 16777216 * (IF a[4] >= 128 THEN a[4] - 256 ELSE a[4])

\* Integer conversion to a wider or narrower type: sign extension or
\* truncation to n bytes.
Cast(a, n) ==
  Tab([idx \in 1..n |->
         IF idx <= Len(a) THEN a[idx] ELSE IF IsNeg(a) THEN 255 ELSE 0], n)

\* Conversion of an unsigned value to a wider type: zero extension.
CastU(a, n) ==
  Tab([idx \in 1..n |-> IF idx <= Len(a) THEN a[idx] ELSE 0], n)

\* Byte-wise addition with carry in; the carry out of the top byte is lost.
RECURSIVE AddRec(_, _, _, _)
AddRec(a, b, carry, acc) ==
  IF Len(acc) >= Len(a) THEN acc
  ELSE LET s == a[Len(acc) + 1] + b[Len(acc) + 1] + carry
       IN AddRec(a, b, s \div 256, Append(acc, s % 256))

Add(a, b) == AddRec(a, b, 0, <<>>)

Not(a) == Tab([idx \in 1..Len(a) |-> 255 - a[idx]], Len(a))

Sub(a, b) == AddRec(a, Not(b), 1, <<>>)

Neg(a) == AddRec(Not(a), FromInt(0, Len(a)), 1, <<>>)

RECURSIVE ColSum(_, _, _, _)
ColSum(a, b, k, idx) ==
  IF idx > k THEN 0 ELSE a[idx] * b[k + 1 - idx] + ColSum(a, b, k, idx + 1)

RECURSIVE MulRec(_, _, _, _)
MulRec(a, b, carry, acc) ==
  IF Len(acc) >= Len(a) THEN acc
  ELSE LET s == ColSum(a, b, Len(acc) + 1, 1) + carry
       IN MulRec(a, b, s \div 256, Append(acc, s % 256))

\* The product, truncated to the width of the operands (the same bytes for
\* signed and unsigned operands).
Mul(a, b) == MulRec(a, b, 0, <<>>)

\* a << k, truncated to the width of a.
Shl(a, k) ==
  LET q == k \div 8
      s == k % 8
  IN Tab([idx \in 1..Len(a) |->
            LET lo == IF idx - q >= 1 THEN (a[idx - q] * Pow2(s)) % 256 ELSE 0
                hi == IF idx - q - 1 >= 1 THEN a[idx - q - 1] \div Pow2(8 - s)
                      ELSE 0
            IN lo + hi], Len(a))

\* a >> k of a signed a: the arithmetic shift.
Sar(a, k) ==
  LET q == k \div 8
      s == k % 8
      n == Len(a)
      fill == IF IsNeg(a) THEN 255 ELSE 0
      at(j) == IF j <= n THEN a[j] ELSE fill
  IN Tab([idx \in 1..n |->
            (at(idx + q) \div Pow2(s))
              + ((at(idx + q + 1) * Pow2(8 - s)) % 256)], n)

\* a >= b, both unsigned.
RECURSIVE GeURec(_, _, _)
GeURec(a, b, idx) ==
  IF idx = 0 THEN TRUE
  ELSE IF a[idx] # b[idx] THEN a[idx] > b[idx]
  ELSE GeURec(a, b, idx - 1)

GeU(a, b) == GeURec(a, b, Len(a))

Bit(a, k) == (a[(k \div 8) + 1] \div Pow2(k % 8)) % 2

SetBit(a, k) == [a EXCEPT ![(k \div 8) + 1] = @ + Pow2(k % 8)]

\* Unsigned long division, one quotient bit per step from the top bit down.
\* The remainder is kept one byte wider than the operands. st.k is the next
\* bit; DivBits does the steps for the bits down to lo, DivURec the bytes
\* from the top one down.
RECURSIVE DivBits(_, _, _, _)
DivBits(a, d, lo, st) ==
  IF st.k < lo THEN st
  ELSE LET r1 == [Shl(st.rem, 1) EXCEPT ![1] = @ + Bit(a, st.k)]
       IN DivBits(a, d, lo,
                  IF GeU(r1, d)
                    THEN [rem |-> Sub(r1, d), quo |-> SetBit(st.quo, st.k),
                          k |-> st.k - 1]
                    ELSE [rem |-> r1, quo |-> st.quo, k |-> st.k - 1])

RECURSIVE DivURec(_, _, _)
DivURec(a, d, st) ==
  IF st.k < 0 THEN st.quo ELSE DivURec(a, d, DivBits(a, d, st.k - 7, st))

DivU(a, b) ==
  LET n == Len(a)
      zero == FromInt(0, n)
  IN DivURec(a, CastU(b, n + 1),
             [rem |-> CastU(zero, n + 1), quo |-> zero, k |-> 8 * n - 1])

\* a / b of signed operands, b # 0: the quotient truncated toward zero.
Div(a, b) ==
  LET ua == IF IsNeg(a) THEN Neg(a) ELSE a
      ub == IF IsNeg(b) THEN Neg(b) ELSE b
      q == DivU(ua, ub)
  IN IF IsNeg(a) # IsNeg(b) THEN Neg(q) ELSE q

\* -------------------------------------------------- kernel constants

EIO == 5
ENOMEM == 12
ENODEV == 19
EINVAL == 22
IIO_VAL_INT == 1
IIO_VAL_FRACTIONAL == 10

\* ------------------------------------------------------ bus transport

\* One bus operation with its result, as the bus log keeps it.
BusOp(op, reg, arg, ret, values) ==
  [op |-> op, reg |-> reg, arg |-> arg, ret |-> ret, data |-> values]

\* i2c_smbus_read_i2c_block_data: the transport answers tr, which is either
\* a full read of the registers (tr.ok, tr.regs) or a result tr.ret other
\* than the length asked for (a short read or a negative errno).
i2c_smbus_read_i2c_block_data(tr, reg, length) ==
  IF tr.ok
    THEN [ret |-> length,
          data |-> Tab([k \in 1..length |-> tr.regs[reg + k - 1]], length)]
    ELSE [ret |-> tr.ret, data |-> <<>>]

\* ------------------------------------------------------------ bmp280.c

\* (u8) of an s32.
U8(v) == v % 256

\* An initialization that writes ctrl_meas before config.
initialize_bmp280_swapped(env) ==
  LET sensor_id == U8(env.id)
      ctrl_meas == U8(5 * 32 + 5 * 4 + 3)
      config == U8(5 * 32 + 0 * 4 + 0)
      idread == BusOp("read_byte", BMP280_ID_REG, 0, env.id, <<>>)
  IN IF sensor_id # BMP280_ID
       THEN [status |-> -ENODEV, log |-> <<idread>>]
       ELSE [status |-> 0,
             log |-> <<idread,
                       BusOp("write_byte", BMP280_CTRL_MEAS_REG_ADDRESS,
                             ctrl_meas, env.w1, <<>>),
                       BusOp("write_byte", BMP280_CONFIG_REG_ADDRESS,
                             config, env.w2, <<>>)>>]

\* An initialization that writes the configuration before it looks at the
\* identity it read.
initialize_bmp280_writes_first(env) ==
  LET sensor_id == U8(env.id)
      ctrl_meas == U8(5 * 32 + 5 * 4 + 3)
      config == U8(5 * 32 + 0 * 4 + 0)
      ops == <<BusOp("read_byte", BMP280_ID_REG, 0, env.id, <<>>),
               BusOp("write_byte", BMP280_CONFIG_REG_ADDRESS,
                     config, env.w1, <<>>),
               BusOp("write_byte", BMP280_CTRL_MEAS_REG_ADDRESS,
                     ctrl_meas, env.w2, <<>>)>>
  IN [status |-> IF sensor_id # BMP280_ID THEN -ENODEV ELSE 0, log |-> ops]

initialize_bmp280(env) ==
  LET sensor_id == U8(env.id)
      osrs_t == 5
      osrs_p == 5
      mode == 3
      t_sb == 5
      filter == 0
      spi3w_en == 0
      ctrl_meas == U8(osrs_t * 32 + osrs_p * 4 + mode)
      config == U8(t_sb * 32 + filter * 4 + spi3w_en)
      idread == BusOp("read_byte", BMP280_ID_REG, 0, env.id, <<>>)
  IN IF sensor_id # BMP280_ID
       THEN [status |-> -ENODEV, log |-> <<idread>>]
       ELSE [status |-> 0,
             log |-> <<idread,
                       BusOp("write_byte", BMP280_CONFIG_REG_ADDRESS,
                             config, env.w1, <<>>),
                       BusOp("write_byte", BMP280_CTRL_MEAS_REG_ADDRESS,
                             ctrl_meas, env.w2, <<>>)>>]

\* Element i (from 0) of a u16 array laid over the bytes of a block read,
\* in the byte order of the host.
U16At(values, idx) == values[2 * idx + 1] + 256 * values[2 * idx + 2]

\* A loader that keeps every calibration word unsigned.
CalibrationValueUnsigned(idx, v) == v

\* A loader that reinterprets every calibration word as signed, the first
\* of each group included.
CalibrationValueAllSigned(idx, v) == IF v > 32767 THEN v - 65536 ELSE v

\* The value stored for calibration index i (from 1) read as the word v.
CalibrationValue(idx, v) == IF idx # 1 /\ v > 32767 THEN v - 65536 ELSE v

\* A loader that stores the temperature constants as soon as their block is
\* read, before the pressure block is asked for.
read_bmp280_calibration_values_eager(bmp280, env) ==
  LET rt == i2c_smbus_read_i2c_block_data(
              env.calT, BMP280_TEMP_CALIBRATION_BASE_REG_ADDRESS, 3 * 2)
      rp == i2c_smbus_read_i2c_block_data(
              env.calP, BMP280_PRESS_CALIBRATION_BASE_REG_ADDRESS, 9 * 2)
      opT == BusOp("read_block", BMP280_TEMP_CALIBRATION_BASE_REG_ADDRESS,
                   3 * 2, rt.ret, rt.data)
      opP == BusOp("read_block", BMP280_PRESS_CALIBRATION_BASE_REG_ADDRESS,
                   9 * 2, rp.ret, rp.data)
      withT == [bmp280 EXCEPT
                  !.dig_T = [idx \in 0..3 |->
                               IF idx = 0 THEN 0
                               ELSE CalibrationValue(
                                      idx, U16At(rt.data, idx - 1))]]
  IN IF rt.ret # 3 * 2
       THEN [status |-> -EIO, log |-> <<opT>>, bmp280 |-> bmp280]
     ELSE IF rp.ret # 9 * 2
       THEN [status |-> -EIO, log |-> <<opT, opP>>, bmp280 |-> withT]
     ELSE [status |-> 0, log |-> <<opT, opP>>,
           bmp280 |->
             [withT EXCEPT
                !.dig_P = [idx \in 0..9 |->
                             IF idx = 0 THEN 0
                             ELSE CalibrationValue(
                                    idx, U16At(rp.data, idx - 1))]]]

read_bmp280_calibration_values(bmp280, env) ==
  LET rt == i2c_smbus_read_i2c_block_data(
              env.calT, BMP280_TEMP_CALIBRATION_BASE_REG_ADDRESS, 3 * 2)
      rp == i2c_smbus_read_i2c_block_data(
              env.calP, BMP280_PRESS_CALIBRATION_BASE_REG_ADDRESS, 9 * 2)
      opT == BusOp("read_block", BMP280_TEMP_CALIBRATION_BASE_REG_ADDRESS,
                   3 * 2, rt.ret, rt.data)
      opP == BusOp("read_block", BMP280_PRESS_CALIBRATION_BASE_REG_ADDRESS,
                   9 * 2, rp.ret, rp.data)
  IN IF rt.ret # 3 * 2
       THEN [status |-> -EIO, log |-> <<opT>>, bmp280 |-> bmp280]
     ELSE IF rp.ret # 9 * 2
       THEN [status |-> -EIO, log |-> <<opT, opP>>, bmp280 |-> bmp280]
     ELSE [status |-> 0, log |-> <<opT, opP>>,
           bmp280 |->
             [dig_T |-> [idx \in 0..3 |->
                           IF idx = 0 THEN 0
                           ELSE CalibrationValue(idx, U16At(rt.data, idx - 1))],
              dig_P |-> [idx \in 0..9 |->
                           IF idx = 0 THEN 0
                           ELSE CalibrationValue(idx, U16At(rp.data, idx - 1))]]]

setup_bmp280(bmp280, env) ==
  LET ini == initialize_bmp280(env)
      cal == read_bmp280_calibration_values(bmp280, env)
  IN IF ini.status # 0
       THEN [status |-> ini.status, log |-> ini.log, bmp280 |-> bmp280]
     ELSE IF cal.status # 0
       THEN [status |-> cal.status, log |-> ini.log \o cal.log,
             bmp280 |-> cal.bmp280]
     ELSE [status |-> 0, log |-> ini.log \o cal.log, bmp280 |-> cal.bmp280]

\* (val1 << 16) | (val2 << 8) | val3 as an s32.
Triple(values, k) == <<values[k + 2], values[k + 1], values[k], 0>>

\* A raw temperature read that drops the 4 padding bits.
read_bmp280_raw_temperature_shifted(tr) ==
  LET rd == i2c_smbus_read_i2c_block_data(tr, BMP280_TEMP_RAW_REG_ADDRESS, 3)
      op == BusOp("read_block", BMP280_TEMP_RAW_REG_ADDRESS, 3, rd.ret, rd.data)
  IN IF rd.ret # 3
       THEN [status |-> -EIO, log |-> <<op>>, out |-> <<>>]
       ELSE [status |-> 0, log |-> <<op>>, out |-> Sar(Triple(rd.data, 1), 4)]

read_bmp280_raw_temperature(tr) ==
  LET rd == i2c_smbus_read_i2c_block_data(tr, BMP280_TEMP_RAW_REG_ADDRESS, 3)
      op == BusOp("read_block", BMP280_TEMP_RAW_REG_ADDRESS, 3, rd.ret, rd.data)
  IN IF rd.ret # 3
       THEN [status |-> -EIO, log |-> <<op>>, out |-> <<>>]
       ELSE [status |-> 0, log |-> <<op>>, out |-> Triple(rd.data, 1)]

read_bmp280_raw_pressure(tr) ==
  LET rd == i2c_smbus_read_i2c_block_data(tr, BMP280_PRESS_RAW_REG_ADDRESS, 3)
      op == BusOp("read_block", BMP280_PRESS_RAW_REG_ADDRESS, 3, rd.ret, rd.data)
  IN IF rd.ret # 3
       THEN [status |-> -EIO, log |-> <<op>>, out |-> <<>>]
       ELSE [status |-> 0, log |-> <<op>>, out |-> Triple(rd.data, 1)]

\* dig_T[n] as the s32 it is.
T32(dig_T, n) == FromInt(dig_T[n], 4)

\* Line 170, from d = (raw_temp >> 4) - dig_T[1].
TFineVar2(d, dig_T) == Sar(Mul(Sar(Mul(d, d), 12), T32(dig_T, 3)), 14)

\* s32 arithmetic throughout, wrapping at 32 bits.
compute_bmp280_t_fine(raw_temp, dig_T) ==
  Add(Sar(Mul(Sub(Sar(raw_temp, 3), Shl(T32(dig_T, 1), 1)), T32(dig_T, 2)),
          11),
      TFineVar2(Sub(Sar(raw_temp, 4), T32(dig_T, 1)), dig_T))

\* Lines 190-191: the temperature in 1/100 degree from the register triple.
ProcessedTemperatureCalc(raw, dig_T) ==
  LET raw_temp == Sar(raw, 4)
      t_fine == compute_bmp280_t_fine(raw_temp, dig_T)
  IN Sar(Add(Mul(t_fine, FromInt(5, 4)), FromInt(128, 4)), 8)

\* dig_P[n] as the s64 the formula uses it as.
P64(bmp280, n) == FromInt(bmp280.dig_P[n], 8)

\* var2 without the dig_P[4] term of line 231.
PressureVar2WithoutP4(var1, bmp280) ==
  Add(Mul(Mul(var1, var1), P64(bmp280, 6)),
      Shl(Mul(var1, P64(bmp280, 5)), 17))

\* Lines 228-231: var2 after its three assignments, from var1 of line 228.
PressureVar2(var1, bmp280) ==
  Add(Add(Mul(Mul(var1, var1), P64(bmp280, 6)),
          Shl(Mul(var1, P64(bmp280, 5)), 17)),
      Shl(P64(bmp280, 4), 35))

\* Lines 232-234: var1 after its two reassignments, the divisor.
PressureVar1(var1, bmp280) ==
  Sar(Mul(Add(Shl(FromInt(1, 8), 47),
              Add(Sar(Mul(Mul(var1, var1), P64(bmp280, 3)), 8),
                  Shl(Mul(var1, P64(bmp280, 2)), 12))),
          P64(bmp280, 1)),
      33)

\* Lines 239-240: p after the division.
PressureQuotient(raw_press, var1, var2) ==
  Div(Mul(Sub(Shl(Cast(Sub(FromInt(1048576, 4), raw_press), 8), 31), var2),
          FromInt(3125, 8)),
      var1)

\* Lines 241-244: the final p, converted to the u32 stored in *press.
PressureResult(p, bmp280) ==
  Cast(Add(Sar(Add(Add(p, Sar(Mul(Mul(P64(bmp280, 9), Sar(p, 13)),
                                  Sar(p, 13)), 25)),
                   Sar(Mul(P64(bmp280, 8), p), 19)), 8),
           Shl(P64(bmp280, 7), 4)),
       4)

\* The computation without the test of the divisor.
PressureFromUnguarded(raw_press, var1, var2, bmp280) ==
  PressureResult(PressureQuotient(raw_press, var1, var2), bmp280)

\* Lines 235-244, from the divisor var1 and var2.
PressureFrom(raw_press, var1, var2, bmp280) ==
  IF IsZero(var1) THEN FromInt(0, 4)
  ELSE PressureResult(PressureQuotient(raw_press, var1, var2), bmp280)

\* Lines 228-244, from var1 = t_fine - 128000.
PressureOf(raw_press, var1, bmp280) ==
  PressureFrom(raw_press, PressureVar1(var1, bmp280),
               PressureVar2(var1, bmp280), bmp280)

\* Lines 216-246: the pressure from the six register bytes. s64 arithmetic,
\* wrapping at 64 bits; the result is the u32 stored in *press.
ProcessedPressureCalc(values, bmp280) ==
  PressureOf(
    Sar(Triple(values, 1), 4),
    Sub(Cast(compute_bmp280_t_fine(Sar(Triple(values, 4), 4), bmp280.dig_T),
             8),
        FromInt(128000, 8)),
    bmp280)

\* The register contents the model draws its measurements from (0xF7 to
\* 0xFC: pressure, then temperature, most significant byte first): the
\* data sheet's example, that example with the pressure registers at their
\* top value, and one with the four padding bits of both samples set.
MeasRef == <<101, 90, 192, 126, 237, 0>>
MeasTop == <<255, 255, 240, 126, 237, 0>>
MeasPad == <<101, 90, 207, 126, 237, 15>>

\* Calibration registers as the words stored from 0x88 (temperature) and
\* 0x8E (pressure): the data sheet's example, the extremes of the 16 bit
\* range, a device that answers zeros, and the example with P1 = 0.
CalRef == [T |-> <<27504, 26435, 64536>>,
           P |-> <<36477, 54851, 3024, 2855, 140, 65529, 15500, 50936, 6000>>]
CalEdge == [T |-> <<65535, 32768, 32767>>,
            P |-> <<32768, 65535, 32767, 32768, 1, 0, 65535, 32767, 32768>>]
CalZero == [T |-> <<0, 0, 0>>, P |-> <<0, 0, 0, 0, 0, 0, 0, 0, 0>>]
CalNoP1 == [T |-> <<27504, 26435, 64536>>,
            P |-> <<0, 54851, 3024, 2855, 140, 65529, 15500, 50936, 6000>>]

\* The context the calibration loader stores for the words c.
CtxOf(c) ==
  [dig_T |-> [idx \in 0..3 |-> IF idx = 0 THEN 0 ELSE CalibrationValue(idx, c.T[idx])],
   dig_P |-> [idx \in 0..9 |-> IF idx = 0 THEN 0 ELSE CalibrationValue(idx, c.P[idx])]]

\* The two computations above, evaluated once for the sampled inputs.
TemperatureTable ==
  {<<<<Triple(m, 4), CtxOf(c).dig_T>>,
     ProcessedTemperatureCalc(Triple(m, 4), CtxOf(c).dig_T)>> :
     m \in {MeasRef, MeasTop, MeasPad},
     c \in {CalRef, CalEdge, CalZero, CalNoP1}}

PressureTable ==
  {<<<<m, CtxOf(c)>>, ProcessedPressureCalc(m, CtxOf(c))>> :
     m \in {MeasRef, MeasTop, MeasPad},
     c \in {CalRef, CalEdge, CalZero, CalNoP1}}

ProcessedTemperature(raw, dig_T) ==
  IF \E e \in TemperatureTable : e[1] = <<raw, dig_T>>
    THEN (CHOOSE e \in TemperatureTable : e[1] = <<raw, dig_T>>)[2]
    ELSE ProcessedTemperatureCalc(raw, dig_T)

ProcessedPressure(values, bmp280) ==
  IF \E e \in PressureTable : e[1] = <<values, bmp280>>
    THEN (CHOOSE e \in PressureTable : e[1] = <<values, bmp280>>)[2]
    ELSE ProcessedPressureCalc(values, bmp280)

read_bmp280_processed_temperature(bmp280, tr) ==
  LET raw == read_bmp280_raw_temperature(tr)
  IN IF raw.status # 0
       THEN [status |-> raw.status, log |-> raw.log, out |-> <<>>]
       ELSE [status |-> 0, log |-> raw.log,
             out |-> ProcessedTemperature(raw.out, bmp280.dig_T)]

\* A processed pressure read that fetches the pressure and the temperature
\* registers in two bus transactions.
read_bmp280_processed_pressure_two_reads(bmp280, tr) ==
  LET rp == i2c_smbus_read_i2c_block_data(tr, BMP280_PRESS_RAW_REG_ADDRESS, 3)
      rt == i2c_smbus_read_i2c_block_data(tr, BMP280_TEMP_RAW_REG_ADDRESS, 3)
      ops == <<BusOp("read_block", BMP280_PRESS_RAW_REG_ADDRESS, 3, rp.ret,
                     rp.data),
               BusOp("read_block", BMP280_TEMP_RAW_REG_ADDRESS, 3, rt.ret,
                     rt.data)>>
  IN IF rp.ret # 3 \/ rt.ret # 3
       THEN [status |-> -EIO, log |-> ops, out |-> <<>>]
       ELSE [status |-> 0, log |-> ops,
             out |-> ProcessedPressure(rp.data \o rt.data, bmp280)]

read_bmp280_processed_pressure(bmp280, tr) ==
  LET rd == i2c_smbus_read_i2c_block_data(tr, BMP280_PRESS_RAW_REG_ADDRESS, 6)
      op == BusOp("read_block", BMP280_PRESS_RAW_REG_ADDRESS, 6, rd.ret,
                  rd.data)
  IN IF rd.ret # 6
       THEN [status |-> -EIO, log |-> <<op>>, out |-> <<>>]
       ELSE [status |-> 0, log |-> <<op>>,
             out |-> ProcessedPressure(rd.data, bmp280)]

\* -------------------------------------------------------- bmp280-iio.c

BMP280_CALIBR_CHANNNEL(type, index, scan_index, sign, address) ==
  [type |-> type, indexed |-> 1, channel |-> index, address |-> address,
   info_mask_separate |-> {"IIO_CHAN_INFO_RAW"}, scan_index |-> scan_index,
   sign |-> sign, realbits |-> 16, storagebits |-> 16, shift |-> 0]

bmp280_iio_channels ==
  [idx \in 0..15 |->
     CASE idx \in 0..2 ->
            BMP280_CALIBR_CHANNNEL(
              "IIO_TEMP", idx, idx, IF idx = 0 THEN "u" ELSE "s",
              BMP280_TEMP_CALIBRATION_BASE_REG_ADDRESS + 2 * idx)
       [] idx = 3 ->
            [type |-> "IIO_TEMP", indexed |-> 1, channel |-> 3,
             address |-> BMP280_TEMP_RAW_REG_ADDRESS,
             info_mask_separate |-> {"IIO_CHAN_INFO_RAW"}, scan_index |-> 3,
             sign |-> "s", realbits |-> 20, storagebits |-> 32, shift |-> 4]
       [] idx = 4 ->
            [type |-> "IIO_TEMP", indexed |-> 0, channel |-> 0,
             address |-> 0,
             info_mask_separate |-> {"IIO_CHAN_INFO_PROCESSED"},
             scan_index |-> 4,
             sign |-> "s", realbits |-> 32, storagebits |-> 32, shift |-> 0]
       [] idx \in 5..13 ->
            BMP280_CALIBR_CHANNNEL(
              "IIO_PRESSURE", idx - 5, idx, IF idx = 5 THEN "u" ELSE "s",
              BMP280_PRESS_CALIBRATION_BASE_REG_ADDRESS + 2 * (idx - 5))
       [] idx = 14 ->
            [type |-> "IIO_PRESSURE", indexed |-> 1, channel |-> 9,
             address |-> BMP280_PRESS_RAW_REG_ADDRESS,
             info_mask_separate |-> {"IIO_CHAN_INFO_RAW"}, scan_index |-> 14,
             sign |-> "s", realbits |-> 20, storagebits |-> 32, shift |-> 4]
       [] idx = 15 ->
            [type |-> "IIO_PRESSURE", indexed |-> 0, channel |-> 0,
             address |-> 0,
             info_mask_separate |-> {"IIO_CHAN_INFO_PROCESSED"},
             scan_index |-> 15,
             sign |-> "u", realbits |-> 32, storagebits |-> 32, shift |-> 0]]

num_channels == 16

iio_channel_has_info(chan, type) == type \in chan.info_mask_separate

\* The resolver's answer: the status returned, *val and *val2 when they are
\* set (val as the 4 bytes of the int), and the bus operations issued.
Resolved(status, val, val2, log) ==
  [status |-> status, val |-> val, val2 |-> val2, log |-> log]

\* The resolver's answer for a channel that is read from the device: the
\* reader's status when it failed, else its value with the given type.
Answer(r, val_type, val2) ==
  IF r.status # 0 THEN Resolved(r.status, <<>>, 0, r.log)
  ELSE Resolved(val_type, r.out, val2, r.log)

bmp280_iio_read_from_channel(bmp280, chan, tr) ==
  IF chan.type = "IIO_TEMP" THEN
    IF iio_channel_has_info(chan, "IIO_CHAN_INFO_RAW") /\ chan.indexed = 1
       /\ 0 <= chan.channel /\ chan.channel < 3
      THEN Resolved(IIO_VAL_INT, FromInt(bmp280.dig_T[chan.channel + 1], 4),
                    0, <<>>)
    ELSE IF iio_channel_has_info(chan, "IIO_CHAN_INFO_RAW")
            /\ chan.indexed = 1 /\ chan.channel = 3
      THEN Answer(read_bmp280_raw_temperature(tr), IIO_VAL_INT, 0)
    ELSE IF iio_channel_has_info(chan, "IIO_CHAN_INFO_PROCESSED")
      THEN Answer(read_bmp280_processed_temperature(bmp280, tr),
                  IIO_VAL_FRACTIONAL, 100)
    ELSE Resolved(-EINVAL, <<>>, 0, <<>>)
  ELSE IF chan.type = "IIO_PRESSURE" THEN
    IF iio_channel_has_info(chan, "IIO_CHAN_INFO_RAW") /\ chan.indexed = 1
       /\ 0 <= chan.channel /\ chan.channel < 9
      THEN Resolved(IIO_VAL_INT, FromInt(bmp280.dig_P[chan.channel + 1], 4),
                    0, <<>>)
    ELSE IF iio_channel_has_info(chan, "IIO_CHAN_INFO_RAW")
            /\ chan.indexed = 1 /\ chan.channel = 9
      THEN Answer(read_bmp280_raw_pressure(tr), IIO_VAL_INT, 0)
    ELSE IF iio_channel_has_info(chan, "IIO_CHAN_INFO_PROCESSED")
      THEN Answer(read_bmp280_processed_pressure(bmp280, tr),
                  IIO_VAL_FRACTIONAL, 256)
    ELSE Resolved(-EINVAL, <<>>, 0, <<>>)
  ELSE Resolved(-EINVAL, <<>>, 0, <<>>)

bmp280_iio_read_raw(bmp280, chan, tr) ==
  bmp280_iio_read_from_channel(bmp280, chan, tr)

\* The context of a freshly allocated IIO device: zeroed memory.
ZeroCtx == [dig_T |-> [idx \in 0..3 |-> 0], dig_P |-> [idx \in 0..9 |-> 0]]

\* env.alloc: devm_iio_device_alloc returned a device; env.trig and env.reg:
\* the statuses of devm_iio_triggered_buffer_setup and
\* devm_iio_device_register.
register_bmp280_iio_device(env) ==
  LET su == setup_bmp280(ZeroCtx, env)
  IN IF ~env.alloc
       THEN [status |-> -ENOMEM, log |-> <<>>, bmp280 |-> ZeroCtx,
             registered |-> FALSE]
     ELSE IF su.status # 0
       THEN [status |-> su.status, log |-> su.log, bmp280 |-> su.bmp280,
             registered |-> FALSE]
     ELSE IF env.trig # 0
       THEN [status |-> env.trig, log |-> su.log, bmp280 |-> su.bmp280,
             registered |-> FALSE]
     ELSE IF env.reg # 0
       THEN [status |-> env.reg, log |-> su.log, bmp280 |-> su.bmp280,
             registered |-> FALSE]
     ELSE [status |-> 0, log |-> su.log, bmp280 |-> su.bmp280,
           registered |-> TRUE]

\* ------------------------------------------------------------- main.c

\* env.addr_ok: client->addr is the module's bmp280_i2c_address.
bmp280_iio_probe(env) ==
  IF ~env.addr_ok
    THEN [status |-> -1, log |-> <<>>, bmp280 |-> ZeroCtx,
          registered |-> FALSE]
    ELSE register_bmp280_iio_device(env)

\* ------------------------------------------------ the trigger handler

StorageBytes(chan) == chan.storagebits \div 8

RECURSIVE SumBytes(_)
SumBytes(mask) ==
  IF mask = {} THEN 0
  ELSE LET idx == CHOOSE j \in mask : \A k \in mask : j <= k
       IN StorageBytes(bmp280_iio_channels[idx]) + SumBytes(mask \ {idx})

\* indio_dev->scan_bytes, which the IIO core sets when the buffer is
\* enabled: the bytes of one sample of the active channels.
scan_bytes(mask) == SumBytes(mask)

\* A search that takes every position for a set bit.
find_next_bit_unmasked(mask, size, idx) == IF idx < size THEN idx ELSE size

\* find_next_bit: the first set bit of the mask at or after position i, or
\* size when there is none.
find_next_bit(mask, size, idx) ==
  IF \E j \in mask : j >= idx /\ j < size
    THEN CHOOSE j \in mask : j >= idx /\ j < size
                             /\ \A k \in mask : (k >= idx /\ k < size) => j <= k
    ELSE size

kzalloc(size) ==
  [state |-> "live", size |-> size,
   bytes |-> Tab([k \in 1..size |-> 0], size)]

NoData == [state |-> "none", size |-> 0, bytes |-> <<>>]

\* A store of the n low bytes of val at byte offset ptr of the buffer. Bytes
\* that fall outside the allocation are not part of the buffer.
Store(buf, ptr, val, n) ==
  [buf EXCEPT !.bytes =
     Tab([k \in 1..Len(buf.bytes) |->
            IF k > ptr /\ k <= ptr + n THEN val[k - ptr] ELSE buf.bytes[k]],
         Len(buf.bytes))]

\* A store that advances the cursor by 4 bytes whatever the width.
StoreChannelAdvancesFour(buf, cursor, chan, val) ==
  IF chan.storagebits = 16
    THEN [ok |-> TRUE, data |-> Store(buf, cursor, val, 2),
          data_ptr |-> cursor + 4]
  ELSE IF chan.storagebits = 32
    THEN [ok |-> TRUE, data |-> Store(buf, cursor, val, 4),
          data_ptr |-> cursor + 4]
  ELSE [ok |-> FALSE, data |-> buf, data_ptr |-> cursor]

\* Lines 340-358, the store of val for chan at data_ptr: the buffer and
\* the cursor after it; ok is FALSE on the unexpected storage width.
StoreChannel(buf, cursor, chan, val) ==
  IF chan.storagebits = 16
    THEN [ok |-> TRUE, data |-> Store(buf, cursor, val, 2),
          data_ptr |-> cursor + 2]
  ELSE IF chan.storagebits = 32
    THEN [ok |-> TRUE, data |-> Store(buf, cursor, val, 4),
          data_ptr |-> cursor + 4]
  ELSE [ok |-> FALSE, data |-> buf, data_ptr |-> cursor]

\* What the model remembers of one invocation of the handler: the cells it
\* stored, the bus operations it issued, its calls of iio_push_to_buffers,
\* kfree and iio_trigger_notify_done in order, the bytes it pushed, whether
\* it touched memory that was not its live buffer, and whether it returned
\* with its buffer still allocated.
NoRun == [alloc_ok |-> FALSE, cells |-> <<>>, log |-> <<>>, calls |-> <<>>,
          pushed |-> <<>>, push_status |-> 0, failed_at |-> -1,
          stray |-> FALSE, leaked |-> FALSE]

VARIABLES
  dev,              \* "unbound", "registered" or "failed": the probe's outcome
  probe_status,     \* the status bmp280_iio_probe returned
  bmp280_ctx,       \* struct bmp280_ctx in iio_priv: dig_T and dig_P
  bus_log,          \* the bus operations of the setup, with their results
  buffer_enabled,   \* the IIO buffer is enabled
  active_scan_mask, \* indio_dev->active_scan_mask
  h_pc,             \* where the handler thread is
  i,                \* the handler's loop variable
  data,             \* the handler's buffer
  data_ptr,         \* the handler's write cursor, as an offset into data
  run,              \* the handler's current or last run since the enable
  last_read,        \* the direct read that has just returned, if any
  monitor,          \* struct bmp280_hd44780_monitor of the LCD monitor
  work_pc,          \* where the execution of the monitor's work item is
  teardown_pc,      \* where monitor_teardown is
  lcd,              \* what the display shows
  monitor_event     \* the operation of the monitor that ran last

vars == <<dev, probe_status, bmp280_ctx, bus_log, buffer_enabled,
          active_scan_mask, h_pc, i, data, data_ptr, run, last_read,
          monitor, work_pc, teardown_pc, lcd, monitor_event>>

driver_vars == <<dev, probe_status, bmp280_ctx, bus_log, buffer_enabled,
                 active_scan_mask, h_pc, i, data, data_ptr, run, last_read>>

monitor_vars == <<monitor, work_pc, teardown_pc, lcd, monitor_event>>

dev_vars == <<dev, probe_status, bmp280_ctx, bus_log>>

handler_vars == <<h_pc, i, data, data_ptr, run>>

\* monitor_init and the schedule_delayed_work of a successful probe
\* (bmp280-hd44780-monitor.c): the defaults, the mutex free and the work
\* item queued. dwork_pending is the PENDING bit of the delayed work: set
\* while the work waits for its timer or in the queue, cleared when an
\* execution starts.
monitor_init ==
  [monitor_mutex |-> "free", dwork_pending |-> TRUE, display_index |-> 0,
   refresh_period_ms |-> 2000, running |-> TRUE]

\* A transport answer to a block read: the registers at the time of the
\* read, or a result other than the length asked for.
FullRead(regs) == [ok |-> TRUE, ret |-> 0, regs |-> regs]

FailedRead(ret) == [ok |-> FALSE, ret |-> ret, regs |-> <<>>]

NoRead == [chan |-> -1, tr |-> FailedRead(0),
           res |-> Resolved(0, <<>>, 0, <<>>)]

Init ==
  /\ dev = "unbound"
  /\ probe_status = 0
  /\ bmp280_ctx = ZeroCtx
  /\ bus_log = <<>>
  /\ buffer_enabled = FALSE
  /\ active_scan_mask = {}
  /\ h_pc = "idle"
  /\ i = 0
  /\ data = NoData
  /\ data_ptr = 0
  /\ run = NoRun
  /\ last_read = NoRead
  /\ monitor = monitor_init
  /\ work_pc = "idle"
  /\ teardown_pc = "none"
  /\ lcd = "blank"
  /\ monitor_event = "probe"

MeasRegs(m) == [a \in 247..252 |-> m[a - 246]]

CalRegs(c) ==
  [a \in 136..165 |->
     LET w == IF a < 142 THEN c.T[((a - 136) \div 2) + 1]
              ELSE IF a < 160 THEN c.P[((a - 142) \div 2) + 1]
              ELSE 0
     IN IF a % 2 = 0 THEN w % 256 ELSE w \div 256]

Transports(D) ==
  {FullRead(MeasRegs(m)) : m \in D.meas} \cup {FailedRead(f) : f \in D.fail}

\* bmp280_iio_probe (main.c), with register_bmp280_iio_device and the setup.
\* An input the code does not come to use is not drawn.
Probe(D) ==
  /\ dev = "unbound"
  /\ \E a \in D.addr_ok, al \in D.alloc, id \in D.ids :
       \E w1 \in IF U8(id) = BMP280_ID THEN D.wret ELSE {0},
          w2 \in IF U8(id) = BMP280_ID THEN D.wret ELSE {0},
          c \in IF U8(id) = BMP280_ID THEN D.cal ELSE {CalZero} :
         \E ft \in IF U8(id) = BMP280_ID THEN D.calTfail \cup {6} ELSE {6},
            fp \in IF U8(id) = BMP280_ID THEN D.calPfail \cup {18} ELSE {18},
            t \in IF U8(id) = BMP280_ID THEN D.kret ELSE {0},
            r \in IF U8(id) = BMP280_ID THEN D.kret ELSE {0} :
           LET env == [addr_ok |-> a, alloc |-> al, id |-> id,
                       w1 |-> w1, w2 |-> w2,
                       calT |-> IF ft = 6 THEN FullRead(CalRegs(c))
                                ELSE FailedRead(ft),
                       calP |-> IF fp = 18 THEN FullRead(CalRegs(c))
                                ELSE FailedRead(fp),
                       trig |-> t, reg |-> r]
               res == bmp280_iio_probe(env)
           IN /\ dev' = IF res.registered THEN "registered" ELSE "failed"
              /\ probe_status' = res.status
              /\ bmp280_ctx' = res.bmp280
              /\ bus_log' = res.log
  /\ last_read' = NoRead
  /\ UNCHANGED <<buffer_enabled, active_scan_mask>>
  /\ UNCHANGED handler_vars
  /\ UNCHANGED monitor_vars

\* The IIO core enables the buffer with the scan mask the user chose.
EnableBuffer(D) ==
  /\ dev = "registered"
  /\ ~buffer_enabled
  /\ h_pc = "idle"
  /\ h_pc' = h_pc
  /\ \E mask \in D.masks : active_scan_mask' = mask
  /\ buffer_enabled' = TRUE
  /\ run' = NoRun
  /\ last_read' = NoRead
  /\ UNCHANGED <<i, data, data_ptr>>
  /\ UNCHANGED dev_vars
  /\ UNCHANGED monitor_vars

\* The IIO core disables the buffer; it waits for a running handler.
DisableBuffer ==
  /\ buffer_enabled
  /\ h_pc = "idle"
  /\ buffer_enabled' = FALSE
  /\ active_scan_mask' = {}
  /\ h_pc' = h_pc
  /\ run' = NoRun
  /\ last_read' = NoRead
  /\ UNCHANGED <<i, data, data_ptr>>
  /\ UNCHANGED dev_vars
  /\ UNCHANGED monitor_vars

\* bmp280_iio_trigger_handler, lines 322-330: a trigger fires, the handler
\* allocates its buffer.
Trigger(D) ==
  /\ buffer_enabled
  /\ h_pc = "idle"
  /\ \E ok \in D.kzalloc :
       LET first == find_next_bit(active_scan_mask, num_channels, 0)
       IN /\ data' = IF ok THEN kzalloc(scan_bytes(active_scan_mask))
                     ELSE NoData
          /\ data_ptr' = 0
          /\ i' = IF ok THEN first ELSE 0
          /\ h_pc' = IF ~ok THEN "trigger_notify"
                     ELSE IF first < num_channels THEN "loop"
                     ELSE "push"
          /\ run' = [NoRun EXCEPT !.alloc_ok = ok]
  /\ last_read' = NoRead
  /\ UNCHANGED <<buffer_enabled, active_scan_mask>>
  /\ UNCHANGED dev_vars
  /\ UNCHANGED monitor_vars

\* A loop that goes on to the push when a channel fails.
HandlerStorePushesAfterFailure(r, st, tr, next) ==
  IF r.status < 0 \/ ~st.ok
    THEN /\ h_pc' = "push"
         /\ run' = [run EXCEPT !.log = @ \o r.log, !.failed_at = i]
         /\ UNCHANGED <<i, data, data_ptr>>
    ELSE /\ data' = st.data
         /\ data_ptr' = st.data_ptr
         /\ i' = next
         /\ h_pc' = IF next < num_channels THEN "loop" ELSE "push"
         /\ run' = [run EXCEPT
                      !.cells = Append(@, [chan |-> i, offset |-> data_ptr,
                                           val |-> r.val, tr |-> tr]),
                      !.log = @ \o r.log,
                      !.stray = @ \/ data.state # "live"
                                  \/ st.data_ptr > data.size]

\* Lines 333-358 of one turn of the loop: r is the resolver's answer for
\* channel i under the transport tr, st the store of its value.
HandlerStore(r, st, tr, next) ==
  IF r.status < 0 \/ ~st.ok
    THEN /\ h_pc' = "free_data"
         /\ run' = [run EXCEPT !.log = @ \o r.log, !.failed_at = i]
         /\ UNCHANGED <<i, data, data_ptr>>
    ELSE /\ data' = st.data
         /\ data_ptr' = st.data_ptr
         /\ i' = next
         /\ h_pc' = IF next < num_channels THEN "loop" ELSE "push"
         /\ run' = [run EXCEPT
                      !.cells = Append(@, [chan |-> i, offset |-> data_ptr,
                                           val |-> r.val, tr |-> tr]),
                      !.log = @ \o r.log,
                      !.stray = @ \/ data.state # "live"
                                  \/ st.data_ptr > data.size]

\* A handler that takes the value of the direct read that has just returned
\* for the same channel instead of the answer to its own read.
HandlerResolvedStale(r, tr) ==
  HandlerStore(IF last_read.chan = i THEN last_read.res ELSE r,
               StoreChannel(data, data_ptr, bmp280_iio_channels[i],
                            IF last_read.chan = i THEN last_read.res.val
                            ELSE r.val),
               tr, find_next_bit(active_scan_mask, num_channels, i + 1))

HandlerResolved(r, tr) ==
  HandlerStore(r, StoreChannel(data, data_ptr, bmp280_iio_channels[i], r.val),
               tr, find_next_bit(active_scan_mask, num_channels, i + 1))

\* Lines 331-359: one turn of the loop over the set bits of the mask.
HandlerChannel(D) ==
  /\ h_pc = "loop"
  /\ \E tr \in Transports(D) :
       HandlerResolved(
         bmp280_iio_read_from_channel(bmp280_ctx, bmp280_iio_channels[i], tr),
         tr)
  /\ last_read' = NoRead
  /\ UNCHANGED <<buffer_enabled, active_scan_mask>>
  /\ UNCHANGED dev_vars
  /\ UNCHANGED monitor_vars

\* A push whose failure path skips the kfree.
HandlerPushLeaksOnFailure(D) ==
  /\ h_pc = "push"
  /\ \E st \in D.push :
       /\ run' = [run EXCEPT !.calls = Append(@, "iio_push_to_buffers"),
                             !.pushed = data.bytes,
                             !.push_status = st,
                             !.stray = @ \/ data.state # "live"]
       /\ h_pc' = IF st # 0 THEN "trigger_notify" ELSE "free_data"
  /\ last_read' = NoRead
  /\ UNCHANGED <<buffer_enabled, active_scan_mask, i, data, data_ptr>>
  /\ UNCHANGED dev_vars
  /\ UNCHANGED monitor_vars

\* Lines 360-364: iio_push_to_buffers, which answers st.
HandlerPush(D) ==
  /\ h_pc = "push"
  /\ \E st \in D.push :
       run' = [run EXCEPT !.calls = Append(@, "iio_push_to_buffers"),
                          !.pushed = data.bytes,
                          !.push_status = st,
                          !.stray = @ \/ data.state # "live"]
  /\ h_pc' = "free_data"
  /\ last_read' = NoRead
  /\ UNCHANGED <<buffer_enabled, active_scan_mask, i, data, data_ptr>>
  /\ UNCHANGED dev_vars
  /\ UNCHANGED monitor_vars

\* A handler that returns right after the kfree.
HandlerFreeAndReturn ==
  /\ h_pc = "free_data"
  /\ data' = NoData
  /\ run' = [run EXCEPT !.calls = Append(@, "kfree"),
                        !.stray = @ \/ data.state # "live"]
  /\ h_pc' = "idle"
  /\ i' = 0
  /\ data_ptr' = 0
  /\ last_read' = NoRead
  /\ UNCHANGED <<buffer_enabled, active_scan_mask>>
  /\ UNCHANGED dev_vars
  /\ UNCHANGED monitor_vars

\* Lines 365-366.
HandlerFree ==
  /\ h_pc = "free_data"
  /\ data' = [data EXCEPT !.state = "freed"]
  /\ run' = [run EXCEPT !.calls = Append(@, "kfree"),
                        !.stray = @ \/ data.state # "live"]
  /\ h_pc' = "trigger_notify"
  /\ last_read' = NoRead
  /\ UNCHANGED <<buffer_enabled, active_scan_mask, i, data_ptr>>
  /\ UNCHANGED dev_vars
  /\ UNCHANGED monitor_vars

\* Lines 367-369: iio_trigger_notify_done, and the handler returns; its
\* locals are gone.
HandlerNotify ==
  /\ h_pc = "trigger_notify"
  /\ run' = [run EXCEPT !.calls = Append(@, "iio_trigger_notify_done"),
                        !.leaked = data.state = "live"]
  /\ h_pc' = "idle"
  /\ i' = 0
  /\ data' = NoData
  /\ data_ptr' = 0
  /\ last_read' = NoRead
  /\ UNCHANGED <<buffer_enabled, active_scan_mask>>
  /\ UNCHANGED dev_vars
  /\ UNCHANGED monitor_vars

\* A direct read that keeps the state of the device in the context: it
\* writes to dig_T[0], the unused first element.
DirectReadWritesContext(D) ==
  /\ dev = "registered"
  /\ \E c \in D.chans, tr \in Transports(D) :
       last_read' = [chan |-> c, tr |-> tr,
                     res |-> bmp280_iio_read_raw(
                               bmp280_ctx, bmp280_iio_channels[c], tr)]
  /\ bmp280_ctx' = [bmp280_ctx EXCEPT !.dig_T[0] = 1]
  /\ UNCHANGED <<buffer_enabled, active_scan_mask, dev, probe_status, bus_log>>
  /\ UNCHANGED handler_vars
  /\ UNCHANGED monitor_vars

\* bmp280_iio_read_raw: a direct read of channel c through sysfs.
DirectRead(D) ==
  /\ dev = "registered"
  /\ \E c \in D.chans, tr \in Transports(D) :
       last_read' = [chan |-> c, tr |-> tr,
                     res |-> bmp280_iio_read_raw(
                               bmp280_ctx, bmp280_iio_channels[c], tr)]
  /\ UNCHANGED <<buffer_enabled, active_scan_mask>>
  /\ UNCHANGED dev_vars
  /\ UNCHANGED handler_vars
  /\ UNCHANGED monitor_vars

Next(D) ==
  \/ Probe(D)
  \/ EnableBuffer(D)
  \/ DisableBuffer
  \/ Trigger(D)
  \/ HandlerChannel(D)
  \/ HandlerPush(D)
  \/ HandlerFree
  \/ HandlerNotify
  \/ DirectRead(D)

\* ------------------------------------------------------------ bounds

\* The largest errno of the kernel's errno.h that a bus read may answer.
MaxErrno == 133

\* The most channels a scan mask of Spec enables.
MaxActive == 2

Errnos == {-e : e \in 1..MaxErrno}

\* Channels of each kind of the table: an unsigned and a signed
\* calibration value, and the four measurement channels.
SampleChannels == {0, 1, 3, 4, 14, 15}

\* Runs of the handler and direct reads on a device set up from the data
\* sheet's calibration, with up to MaxActive of the sample channels enabled,
\* three measurements, failing reads, allocations and pushes.
MainD ==
  [addr_ok |-> {TRUE}, alloc |-> {TRUE}, ids |-> {BMP280_ID, 0},
   wret |-> {0}, cal |-> {CalRef}, calTfail |-> {}, calPfail |-> {},
   kret |-> {0},
   masks |-> {m \in SUBSET SampleChannels :
                m # {} /\ Cardinality(m) <= MaxActive},
   meas |-> {MeasRef, MeasTop, MeasPad}, fail |-> {-EIO, 2},
   kzalloc |-> BOOLEAN, push |-> {0, -ENOMEM}, chans |-> SampleChannels]

NextMain == Next(MainD)

Spec == Init /\ [][NextMain]_vars

\* Every outcome of the setup: each answer of the identity read (a byte or
\* an errno), failing configuration writes, three calibration contents,
\* calibration reads that fail or come back short, failing allocation,
\* trigger setup and registration; then one channel in the buffer.
SetupD ==
  [addr_ok |-> BOOLEAN, alloc |-> BOOLEAN, ids |-> Byte \cup Errnos,
   wret |-> {0, -EIO}, cal |-> {CalRef, CalEdge, CalZero, CalNoP1},
   calTfail |-> {-EIO, 0, 5}, calPfail |-> {-EIO, 0, 6, 17},
   kret |-> {0, -ENOMEM},
   masks |-> {{4}}, meas |-> {MeasRef}, fail |-> {-EIO},
   kzalloc |-> {TRUE}, push |-> {0}, chans |-> {0, 4, 15}]

NextSetup == Next(SetupD)

SpecSetup == Init /\ [][NextSetup]_vars

\* Every channel of the table read directly, after handler runs over a raw
\* and a calibration channel, with two calibration sets.
CalibD ==
  [addr_ok |-> {TRUE}, alloc |-> {TRUE}, ids |-> {BMP280_ID},
   wret |-> {0}, cal |-> {CalRef, CalEdge}, calTfail |-> {}, calPfail |-> {},
   kret |-> {0}, masks |-> {{3, 5}, {13, 14}}, meas |-> {MeasRef, MeasPad},
   fail |-> {-EIO}, kzalloc |-> {TRUE}, push |-> {0}, chans |-> 0..15]

NextCalib == Next(CalibD)

SpecCalib == Init /\ [][NextCalib]_vars

\* The resolver as a function of the descriptor it is handed: descriptors
\* drawn from every combination of type, info mask, indexed flag and index
\* below, the ones of the table among them.
DescriptorIndexes == {-1, 0, 2, 3, 8, 9, 10}

Descriptor(type, info, indexed, channel) ==
  [type |-> type, indexed |-> indexed, channel |-> channel, address |-> 0,
   info_mask_separate |-> info, scan_index |-> -1,
   sign |-> "s", realbits |-> 32, storagebits |-> 32, shift |-> 0]

Descriptors ==
  {Descriptor(type, info, indexed, channel) :
     type \in {"IIO_TEMP", "IIO_PRESSURE", "IIO_VOLTAGE"},
     info \in {{}, {"IIO_CHAN_INFO_RAW"}, {"IIO_CHAN_INFO_PROCESSED"}},
     indexed \in {0, 1},
     channel \in DescriptorIndexes}

DescD ==
  [addr_ok |-> {TRUE}, alloc |-> {TRUE}, ids |-> {BMP280_ID},
   wret |-> {0}, cal |-> {CalRef}, calTfail |-> {}, calPfail |-> {},
   kret |-> {0}, masks |-> {{4}}, meas |-> {MeasRef},
   fail |-> {-EIO}, kzalloc |-> {TRUE}, push |-> {0}, chans |-> {4}]

\* bmp280_iio_read_from_channel called with the descriptor d.
ResolveDescriptor ==
  /\ dev = "registered"
  /\ \E d \in Descriptors, tr \in Transports(DescD) :
       last_read' = [chan |-> -1, desc |-> d, tr |-> tr,
                     res |-> bmp280_iio_read_from_channel(bmp280_ctx, d, tr)]
  /\ UNCHANGED <<buffer_enabled, active_scan_mask>>
  /\ UNCHANGED dev_vars
  /\ UNCHANGED handler_vars
  /\ UNCHANGED monitor_vars

NextDescriptors == Probe(DescD) \/ ResolveDescriptor

SpecDescriptors == Init /\ [][NextDescriptors]_vars

\* The handler under every scan mask of at most MaxActive of the 16
\* channels, and under the mask of all 16.
MasksD ==
  [addr_ok |-> {TRUE}, alloc |-> {TRUE}, ids |-> {BMP280_ID},
   wret |-> {0}, cal |-> {CalRef}, calTfail |-> {}, calPfail |-> {},
   kret |-> {0},
   masks |-> {m \in SUBSET (0..15) : m # {} /\ Cardinality(m) <= MaxActive}
               \cup {0..15},
   meas |-> {MeasRef}, fail |-> {-EIO}, kzalloc |-> {TRUE},
   push |-> {0}, chans |-> {4}]

NextMasks == Next(MasksD)

SpecMasks == Init /\ [][NextMasks]_vars

\* ------------------------------------------- bmp280-hd44780-monitor.c

\* schedule_delayed_work: queues the work unless it is pending already;
\* [ret, pending] with ret the value returned.
schedule_delayed_work(pending) == [ret |-> ~pending, pending |-> TRUE]

\* The workqueue starts an execution of the work item: it clears the PENDING
\* bit and calls bmp280_hd44780_monitor_work, which has yet to take the
\* mutex. A work item is never executed twice at a time.
WorkStart ==
  /\ monitor.dwork_pending
  /\ work_pc = "idle"
  /\ monitor' = [monitor EXCEPT !.dwork_pending = FALSE]
  /\ work_pc' = "mutex_lock"
  /\ monitor_event' = "work_start"
  /\ UNCHANGED <<teardown_pc, lcd>>
  /\ UNCHANGED driver_vars

\* Line 117: mutex_lock.
WorkLock ==
  /\ work_pc = "mutex_lock"
  /\ monitor.monitor_mutex = "free"
  /\ monitor' = [monitor EXCEPT !.monitor_mutex = "work"]
  /\ work_pc' = "read"
  /\ monitor_event' = "work_lock"
  /\ UNCHANGED <<teardown_pc, lcd>>
  /\ UNCHANGED driver_vars

\* Lines 118-178: the two channel reads and the display; shown tells whether
\* both reads answered IIO_VAL_FRACTIONAL and the display was found.
WorkRefresh ==
  /\ work_pc = "read"
  /\ \E shown \in BOOLEAN : lcd' = IF shown THEN "values" ELSE lcd
  /\ work_pc' = "out"
  /\ monitor_event' = "work_refresh"
  /\ UNCHANGED <<monitor, teardown_pc>>
  /\ UNCHANGED driver_vars

\* Lines 179-190: the reschedule under the running flag, the unlock and the
\* return.
WorkOut ==
  /\ work_pc = "out"
  /\ LET sched == schedule_delayed_work(monitor.dwork_pending)
     IN monitor' =
          IF monitor.running
            THEN [monitor EXCEPT !.dwork_pending = sched.pending,
                                 !.running = sched.ret,
                                 !.monitor_mutex = "free"]
            ELSE [monitor EXCEPT !.monitor_mutex = "free"]
  /\ work_pc' = "idle"
  /\ monitor_event' = "work_out"
  /\ UNCHANGED <<teardown_pc, lcd>>
  /\ UNCHANGED driver_vars

\* What a write to a sysfs attribute parses to: kstrtos32 / kstrtou32 return
\* ret and, when it is 0, store value.
MonitorAttributes ==
  {"monitor_display_index", "monitor_refresh_period_ms", "monitor_running"}

ParsedWrites ==
  [monitor_display_index |-> {[ret |-> 0, value |-> 1],
                              [ret |-> -EINVAL, value |-> 0]},
   monitor_refresh_period_ms |-> {[ret |-> 0, value |-> 500],
                                  [ret |-> -EINVAL, value |-> 0]},
   monitor_running |-> {[ret |-> 0, value |-> 0], [ret |-> 0, value |-> 1],
                        [ret |-> 0, value |-> -1],
                        [ret |-> -EINVAL, value |-> 0]}]

\* bmp280_hd44780_monitor_parameter_store, lines 249-296, under the mutex.
\* The attribute files are removed before teardown starts.
bmp280_hd44780_monitor_parameter_store(attr, w) ==
  /\ teardown_pc = "none"
  /\ monitor.monitor_mutex = "free"
  /\ monitor' =
       IF w.ret # 0 THEN monitor
       ELSE IF attr = "monitor_display_index"
         THEN [monitor EXCEPT !.display_index = w.value]
       ELSE IF attr = "monitor_refresh_period_ms"
         THEN [monitor EXCEPT
                 !.refresh_period_ms = w.value,
                 !.dwork_pending = IF monitor.running THEN TRUE ELSE @]
       ELSE IF w.value = 0
         THEN [monitor EXCEPT !.running = FALSE, !.dwork_pending = FALSE]
       ELSE [monitor EXCEPT !.running = TRUE, !.dwork_pending = TRUE]
  /\ monitor_event' =
       IF w.ret # 0 THEN "store_failed"
       ELSE IF attr = "monitor_running"
         THEN IF w.value = 0 THEN "store_running_0" ELSE "store_running_1"
       ELSE attr
  /\ UNCHANGED <<work_pc, teardown_pc, lcd>>
  /\ UNCHANGED driver_vars

ParameterStore ==
  \E attr \in MonitorAttributes :
    \E w \in ParsedWrites[attr] :
      bmp280_hd44780_monitor_parameter_store(attr, w)

\* monitor_teardown, lines 94-96: running is cleared under the mutex.
TeardownStop ==
  /\ teardown_pc = "none"
  /\ monitor.monitor_mutex = "free"
  /\ monitor' = [monitor EXCEPT !.running = FALSE]
  /\ teardown_pc' = "cancel"
  /\ monitor_event' = "teardown"
  /\ UNCHANGED <<work_pc, lcd>>
  /\ UNCHANGED driver_vars

\* A teardown that cancels with cancel_delayed_work, which does not wait
\* for an execution in progress.
TeardownCancelNoSync ==
  /\ teardown_pc = "cancel"
  /\ monitor' = [monitor EXCEPT !.dwork_pending = FALSE]
  /\ teardown_pc' = "destroy"
  /\ monitor_event' = "teardown"
  /\ UNCHANGED <<work_pc, lcd>>
  /\ UNCHANGED driver_vars

\* Line 98: cancel_delayed_work_sync takes the work off the queue and
\* returns once no execution of it is in progress.
TeardownCancel ==
  /\ teardown_pc = "cancel"
  /\ work_pc = "idle"
  /\ monitor' = [monitor EXCEPT !.dwork_pending = FALSE]
  /\ teardown_pc' = "destroy"
  /\ monitor_event' = "teardown"
  /\ UNCHANGED <<work_pc, lcd>>
  /\ UNCHANGED driver_vars

\* Line 99: mutex_destroy.
TeardownDestroy ==
  /\ teardown_pc = "destroy"
  /\ monitor' = [monitor EXCEPT !.monitor_mutex = "destroyed"]
  /\ teardown_pc' = "done"
  /\ monitor_event' = "teardown"
  /\ UNCHANGED <<work_pc, lcd>>
  /\ UNCHANGED driver_vars

NextMonitor ==
  \/ WorkStart
  \/ WorkLock
  \/ WorkRefresh
  \/ WorkOut
  \/ ParameterStore
  \/ TeardownStop
  \/ TeardownCancel
  \/ TeardownDestroy

SpecMonitor == Init /\ [][NextMonitor]_vars

\* The monitor from either end of its probe: the work item queued by a
\* probe that succeeded (line 343), or never queued by a probe on its way to
\* out_fail, where attribute files that were created can still be written
\* until they are removed and monitor_teardown is called.
InitMonitorProbe ==
  /\ dev = "unbound"
  /\ probe_status = 0
  /\ bmp280_ctx = ZeroCtx
  /\ bus_log = <<>>
  /\ buffer_enabled = FALSE
  /\ active_scan_mask = {}
  /\ h_pc = "idle"
  /\ i = 0
  /\ data = NoData
  /\ data_ptr = 0
  /\ run = NoRun
  /\ last_read = NoRead
  /\ \E scheduled \in BOOLEAN :
       /\ monitor = [monitor_init EXCEPT !.dwork_pending = scheduled]
       /\ monitor_event = IF scheduled THEN "probe" ELSE "probe_failed"
  /\ work_pc = "idle"
  /\ teardown_pc = "none"
  /\ lcd = "blank"

SpecMonitorProbe == InitMonitorProbe /\ [][NextMonitor]_vars

\* ------------------------------------------------------------ claims

\* The bus operation of the log that is a block read of n bytes at reg and
\* came back complete.
CompleteRead(op, reg, n) ==
  op.op = "read_block" /\ op.reg = reg /\ op.arg = n /\ op.ret = n

\* C11: the calibration arrays change only in the step that probes the
\* device, starting from the zeroed context and with both calibration block
\* reads complete in that step's bus log; once the device has left the
\* unbound state (registered or failed), no step of a direct read or of the
\* trigger handler changes any calibration constant.
C11_CalibrationWrittenOnlyBySetup ==
  [][/\ bmp280_ctx' # bmp280_ctx =>
          /\ dev = "unbound"
          /\ bmp280_ctx = ZeroCtx
          /\ \E k \in DOMAIN bus_log' :
               CompleteRead(bus_log'[k],
                            BMP280_TEMP_CALIBRATION_BASE_REG_ADDRESS, 6)
          /\ \E k \in DOMAIN bus_log' :
               CompleteRead(bus_log'[k],
                            BMP280_PRESS_CALIBRATION_BASE_REG_ADDRESS, 18)
     /\ dev # "unbound" => bmp280_ctx' = bmp280_ctx /\ dev' = dev]_vars

\* A registered device with the extreme calibration, after a complete run of
\* the handler and a direct read of the processed temperature.
C11_Witness ==
  /\ dev = "registered"
  /\ bmp280_ctx = CtxOf(CalEdge)
  /\ Len(run.calls) = 3
  /\ last_read.chan = 4

\* The calibration channels of the table: the ones declared with
\* BMP280_CALIBR_CHANNNEL, 16 bits wide.
CalibrationChannels ==
  {c \in DOMAIN bmp280_iio_channels : bmp280_iio_channels[c].storagebits = 16}

\* The constant of calibration channel c as the sensor delivered it at load
\* time: the word at the channel's address in the calibration block read of
\* the probe, signed unless it is the first of its group.
LoadedConstant(c) ==
  LET ch == bmp280_iio_channels[c]
      base == IF ch.type = "IIO_TEMP"
                THEN BMP280_TEMP_CALIBRATION_BASE_REG_ADDRESS
                ELSE BMP280_PRESS_CALIBRATION_BASE_REG_ADDRESS
      k == CHOOSE n \in DOMAIN bus_log :
             bus_log[n].op = "read_block" /\ bus_log[n].reg = base
      w == U16At(bus_log[k].data, (ch.address - base) \div 2)
  IN IF ch.channel # 0 /\ w >= 32768 THEN w - 65536 ELSE w

\* C12: a direct read of any of the 3 temperature or 9 pressure calibration
\* channels issues no bus operation and returns, as an integer, the constant
\* loaded at probe time for index channel + 1 of its group, whatever direct
\* reads and handler runs came before and whatever they returned.
C12_CalibrationChannelsAreConstant ==
  last_read.chan \in CalibrationChannels =>
    /\ last_read.res.status = IIO_VAL_INT
    /\ last_read.res.log = <<>>
    /\ last_read.res.val = FromInt(LoadedConstant(last_read.chan), 4)

\* P9 of the reference calibration read after a handler run that failed on
\* the raw temperature channel.
C12_Witness ==
  /\ last_read.chan = 13
  /\ last_read.res.val = FromInt(6000, 4)
  /\ run.failed_at = 3
  /\ Len(run.calls) = 2

\* The raw channels of the table: raw values read from the device, 20 bits
\* in 32.
RawChannels ==
  {c \in DOMAIN bmp280_iio_channels :
     /\ "IIO_CHAN_INFO_RAW" \in bmp280_iio_channels[c].info_mask_separate
     /\ bmp280_iio_channels[c].storagebits = 32}

\* C13: a direct read of a raw channel issues exactly one bus operation, a
\* block read of 3 bytes at the channel's register address (0xFA temperature,
\* 0xF7 pressure). When the 3 bytes b0, b1, b2 come back, the read returns the
\* integer b0 * 65536 + b1 * 256 + b2, unshifted: its low 4 bits are those of
\* b2 and the 20-bit sample is the value divided by 16. With any other result
\* of the bus read, the read fails with -EIO and sets no value.
C13_RawChannelIsOneUnshiftedRead ==
  last_read.chan \in RawChannels =>
    LET reg == bmp280_iio_channels[last_read.chan].address
        res == last_read.res
        regs == last_read.tr.regs
    IN /\ Len(res.log) = 1
       /\ res.log[1].op = "read_block"
       /\ res.log[1].reg = reg
       /\ res.log[1].arg = 3
       /\ reg = IF last_read.chan = 3 THEN 250 ELSE 247
       /\ IF last_read.tr.ok
            THEN /\ res.status = IIO_VAL_INT
                 /\ ToS32(res.val)
                      = regs[reg] * 65536 + regs[reg + 1] * 256 + regs[reg + 2]
                 /\ ToS32(res.val) % 16 = regs[reg + 2] % 16
                 /\ ToS32(res.val) \div 16
                      = regs[reg] * 4096 + regs[reg + 1] * 16
                          + regs[reg + 2] \div 16
            ELSE /\ res.status = -EIO
                 /\ res.val = <<>>

\* The raw temperature read from registers whose padding bits are all set.
C13_Witness ==
  /\ last_read.chan = 3
  /\ last_read.tr = FullRead(MeasRegs(MeasPad))
  /\ ToS32(last_read.res.val) = 8318223

\* The descriptor has the type, raw-or-processed flag, indexed flag and
\* index of one of the 16 entries of the table.
InTable(d) ==
  \E c \in DOMAIN bmp280_iio_channels :
    /\ bmp280_iio_channels[c].type = d.type
    /\ bmp280_iio_channels[c].info_mask_separate = d.info_mask_separate
    /\ bmp280_iio_channels[c].indexed = d.indexed
    /\ bmp280_iio_channels[c].channel = d.channel

\* C14: for every descriptor that is not one of the 16 entries of the table,
\* the resolver returns -EINVAL, issues no bus operation and sets no value.
C14_OutsideTableIsInvalid ==
  ("desc" \in DOMAIN last_read /\ ~InTable(last_read.desc)) =>
    /\ last_read.res.status = -EINVAL
    /\ last_read.res.log = <<>>
    /\ last_read.res.val = <<>>

\* The divisor of the pressure formula for the six register bytes of a full
\* read and the calibration of the context: var1 of line 234.
Divisor(regs, bmp280) ==
  PressureVar1(
    Sub(Cast(compute_bmp280_t_fine(
               Sar(<<regs[BMP280_TEMP_RAW_REG_ADDRESS + 2],
                     regs[BMP280_TEMP_RAW_REG_ADDRESS + 1],
                     regs[BMP280_TEMP_RAW_REG_ADDRESS], 0>>, 4),
               bmp280.dig_T), 8),
        FromInt(128000, 8)),
    bmp280)

\* C15: whenever the divisor var1 = ((2^47 + var1) * P1) >> 33 of the
\* pressure formula is 0 for the registers read and the calibration loaded,
\* the processed pressure read succeeds with the value 0: the division of
\* line 240 is not reached with a zero divisor.
C15_ZeroDivisorGivesZeroPressure ==
  (last_read.chan = 15 /\ last_read.tr.ok
     /\ IsZero(Divisor(last_read.tr.regs, bmp280_ctx))) =>
    /\ last_read.res.status = IIO_VAL_FRACTIONAL
    /\ last_read.res.val = FromInt(0, 4)
    /\ last_read.res.val2 = 256

\* The processed pressure read with the example calibration whose P1 is 0.
C15_Witness ==
  /\ last_read.chan = 15
  /\ last_read.tr.ok
  /\ bmp280_ctx = CtxOf(CalNoP1)
  /\ bmp280_ctx.dig_P[2] = -10685
  /\ IsZero(Divisor(last_read.tr.regs, bmp280_ctx))
  /\ last_read.res.val = FromInt(0, 4)

\* The data sheet's formula for t_fine evaluated in signed 64-bit arithmetic
\* on the 20-bit sample raw_temp (8 bytes) and the calibration dig_T.
TFineWide(raw_temp, dig_T) ==
  Add(Sar(Mul(Sub(Sar(raw_temp, 3), Shl(FromInt(dig_T[1], 8), 1)),
              FromInt(dig_T[2], 8)), 11),
      Sar(Mul(Sar(Mul(Sub(Sar(raw_temp, 4), FromInt(dig_T[1], 8)),
                      Sub(Sar(raw_temp, 4), FromInt(dig_T[1], 8))), 12),
              FromInt(dig_T[3], 8)), 14))

\* The 20-bit temperature sample of the six register bytes of a full read.
Sample20(regs) ==
  Sar(<<regs[BMP280_TEMP_RAW_REG_ADDRESS + 2],
        regs[BMP280_TEMP_RAW_REG_ADDRESS + 1],
        regs[BMP280_TEMP_RAW_REG_ADDRESS], 0>>, 4)

\* C16: for the 20-bit raw temperature of any processed pressure read and
\* any loaded temperature calibration, the t_fine that enters the pressure
\* formula (line 227) equals the data sheet's formula evaluated in signed
\* 64-bit arithmetic: no product of the computation wraps at 32 bits.
C16_FineTemperatureNeverWraps ==
  (last_read.chan = 15 /\ last_read.tr.ok) =>
    Cast(compute_bmp280_t_fine(Sample20(last_read.tr.regs),
                               bmp280_ctx.dig_T), 8)
      = TFineWide(Cast(Sample20(last_read.tr.regs), 8), bmp280_ctx.dig_T)

\* The manufacturer's reference example: the calibration as the loader
\* stores it, and the registers 0xF7 to 0xFC holding the raw pressure 415148
\* and the raw temperature 519888, each times 16.
ReferenceContext ==
  [dig_T |-> [n \in 0..3 |-> <<0, 27504, 26435, -1000>>[n + 1]],
   dig_P |-> [n \in 0..9 |->
                <<0, 36477, -10685, 3024, 2855, 140, -7, 15500, -14600,
                  6000>>[n + 1]]]

ReferenceRegisters ==
  [a \in 247..252 |->
     <<(415148 * 16) \div 65536, ((415148 * 16) \div 256) % 256,
       (415148 * 16) % 256,
       (519888 * 16) \div 65536, ((519888 * 16) \div 256) % 256,
       (519888 * 16) % 256>>[a - 246]]

ReferenceRead(c) ==
  /\ bmp280_ctx = ReferenceContext
  /\ last_read.chan = c
  /\ last_read.tr.ok
  /\ last_read.tr.regs = ReferenceRegisters

\* The temperature half of the example: fine value 128422 and 2508
\* hundredths of a degree, returned as a fraction over 100.
ReferenceTemperature ==
  ReferenceRead(4) =>
    /\ ToS32(compute_bmp280_t_fine(Sample20(last_read.tr.regs),
                                   bmp280_ctx.dig_T)) = 128422
    /\ last_read.res.status = IIO_VAL_FRACTIONAL
    /\ ToS32(last_read.res.val) = 2508
    /\ last_read.res.val2 = 100

\* C17 as claimed: with the reference example the processed temperature is
\* 2508 (fine value 128422) and the processed pressure is 25767236 in 1/256
\* Pa.
C17_ReferenceExampleAsClaimed ==
  /\ ReferenceTemperature
  /\ ReferenceRead(15) =>
       /\ last_read.res.status = IIO_VAL_FRACTIONAL
       /\ last_read.res.val = FromInt(25767236, 4)
       /\ last_read.res.val2 = 256

\* C17 amended: with the reference example the processed temperature is
\* 2508 (fine value 128422) and the processed pressure is 25767233 in 1/256
\* Pa (100653.25 Pa), the result of the 64-bit integer formula.
C17_ReferenceExample ==
  /\ ReferenceTemperature
  /\ ReferenceRead(15) =>
       /\ last_read.res.status = IIO_VAL_FRACTIONAL
       /\ last_read.res.val = FromInt(25767233, 4)
       /\ last_read.res.val2 = 256

\* The processed pressure read of the reference example.
C17_Witness ==
  /\ ReferenceRead(15)
  /\ last_read.res.val = FromInt(25767233, 4)

\* The channels whose value is read from the device, and the block each
\* reads: raw and processed temperature 3 bytes at 0xFA, raw pressure 3 bytes
\* and processed pressure 6 bytes at 0xF7.
DeviceChannels == {3, 4, 14, 15}

ReadBytes(c, tr) ==
  i2c_smbus_read_i2c_block_data(
    tr,
    IF c \in {3, 4} THEN BMP280_TEMP_RAW_REG_ADDRESS
    ELSE BMP280_PRESS_RAW_REG_ADDRESS,
    IF c = 15 THEN 6 ELSE 3)

\* The direct read that has just returned and every value the handler has
\* stored in its current or last run agree whenever they are of the same
\* channel and received the same bytes.
SameBytesSameOutput ==
  \A k \in DOMAIN run.cells :
    (/\ last_read.chan \in DeviceChannels
     /\ run.cells[k].chan = last_read.chan
     /\ ReadBytes(last_read.chan, run.cells[k].tr)
          = ReadBytes(last_read.chan, last_read.tr))
      => /\ last_read.res.status > 0
         /\ last_read.res.val = run.cells[k].val

ReadsOnly(log) == \A n \in DOMAIN log : log[n].op = "read_block"

\* C18: a read of the device returns a function of the bytes its own bus
\* read received and of the calibration: a direct read and a handler read of
\* the same channel that receive the same bytes return the same value,
\* whatever ran before or between them. A direct read issues block reads only
\* and changes neither the device state, the buffer state nor the handler's
\* run; a handler read issues block reads only and changes no device state.
C18_ReadsArePureAndFrameFree ==
  [][/\ SameBytesSameOutput'
     /\ last_read' # NoRead =>
          /\ ReadsOnly(last_read'.res.log)
          /\ UNCHANGED <<dev_vars, handler_vars, buffer_enabled,
                         active_scan_mask>>
     /\ (h_pc = "loop" /\ run' # run) =>
          /\ ReadsOnly(run'.log)
          /\ UNCHANGED <<dev_vars, buffer_enabled, active_scan_mask>>]_vars

\* A direct read of the processed pressure while the handler is between its
\* last read and its push, with the bytes the handler got for that channel.
C18_Witness ==
  /\ h_pc = "push"
  /\ Len(run.cells) = 2
  /\ last_read.chan = 15
  /\ last_read.tr = FullRead(MeasRegs(MeasTop))
  /\ \E k \in DOMAIN run.cells :
       /\ run.cells[k].chan = 15
       /\ run.cells[k].tr = last_read.tr
       /\ run.cells[k].val = last_read.res.val

\* The pressure of the formula with the raw pressure taken from bytes 0..2
\* and the raw temperature from bytes 3..5 of the block b, for the reference
\* calibration and each sampled register content.
PressureOfBlock(b, bmp280) ==
  PressureOf(
    Sar(<<b[3], b[2], b[1], 0>>, 4),
    Sub(Cast(compute_bmp280_t_fine(Sar(<<b[6], b[5], b[4], 0>>, 4),
                                   bmp280.dig_T), 8),
        FromInt(128000, 8)),
    bmp280)

BlockPressures ==
  [b \in {MeasRef, MeasTop, MeasPad} |-> PressureOfBlock(b, CtxOf(CalRef))]

\* C19: a processed pressure read issues exactly one bus operation, a block
\* read of 6 bytes at 0xF7. When 6 bytes come back the pressure is computed
\* from bytes 0..2 (raw pressure) and bytes 3..5 (raw temperature) of that
\* one read; with any other result the read fails with -EIO and sets no
\* pressure.
C19_PressureFromOneSixByteRead ==
  (last_read.chan = 15 /\ bmp280_ctx = CtxOf(CalRef)) =>
    /\ Len(last_read.res.log) = 1
    /\ last_read.res.log[1].op = "read_block"
    /\ last_read.res.log[1].reg = 247
    /\ last_read.res.log[1].arg = 6
    /\ IF last_read.res.log[1].ret = 6
         THEN /\ last_read.res.status = IIO_VAL_FRACTIONAL
              /\ last_read.res.log[1].data \in DOMAIN BlockPressures
              /\ last_read.res.val
                   = BlockPressures[last_read.res.log[1].data]
         ELSE /\ last_read.res.status = -EIO
              /\ last_read.res.val = <<>>

\* The processed pressure read of registers whose padding bits are set.
C19_Witness ==
  /\ last_read.chan = 15
  /\ bmp280_ctx = CtxOf(CalRef)
  /\ last_read.res.log = <<BusOp("read_block", 247, 6, 6, MeasPad)>>
  /\ last_read.res.val = FromInt(25767233, 4)

\* C20: in the LCD monitor the running flag goes from true to false only
\* in a write of 0 to monitor_running or in teardown, whatever writes to
\* monitor_refresh_period_ms or non-zero writes to monitor_running
\* interleave with an execution of the worker.
C20_RunningClearedOnlyByWriteOrTeardown ==
  [][(monitor.running /\ ~monitor'.running) =>
       monitor_event' \in {"store_running_0", "teardown"}]_vars

\* How often the handler's run called fn, and the positions of its calls.
Calls(fn) == {k \in DOMAIN run.calls : run.calls[k] = fn}

\* C1: every invocation of the trigger handler calls
\* iio_trigger_notify_done exactly once, as the last thing before it
\* returns, on every path (allocation failure, resolver failure, push
\* failure, success): while the handler is in flight it has not signalled,
\* and when it returns the signal is the last call of the run, after the
\* push if there was one.
C1_CompletionSignalledOnceBeforeReturn ==
  [][/\ h_pc' # "idle" => Calls("iio_trigger_notify_done")' = {}
     /\ (h_pc # "idle" /\ h_pc' = "idle") =>
          /\ Calls("iio_trigger_notify_done")' = {Len(run'.calls)}
          /\ \A k \in Calls("iio_push_to_buffers")' : k < Len(run'.calls)
     /\ (h_pc = "idle" /\ run' # run /\ buffer_enabled') =>
          h_pc' # "idle"]_vars

\* The handler has returned after a push that failed.
C1_Witness ==
  /\ h_pc = "idle"
  /\ run.push_status = -ENOMEM
  /\ run.calls = <<"iio_push_to_buffers", "kfree", "iio_trigger_notify_done">>

\* C2: when the resolver fails on an active channel, the handler resolves no
\* later channel, issues no further bus read and pushes nothing; a buffer is
\* pushed only when every active channel was resolved and stored.
C2_FailureStopsAssembly ==
  /\ run.failed_at # -1 =>
       /\ Calls("iio_push_to_buffers") = {}
       /\ run.pushed = <<>>
       /\ \A k \in DOMAIN run.cells : run.cells[k].chan < run.failed_at
       /\ h_pc \in {"free_data", "trigger_notify", "idle"}
       /\ Len(run.log)
            = Cardinality({k \in DOMAIN run.cells :
                             run.cells[k].chan \in {3, 4, 14, 15}}) + 1
       /\ run.log[Len(run.log)].ret # run.log[Len(run.log)].arg
  /\ Calls("iio_push_to_buffers") # {} =>
       /\ run.failed_at = -1
       /\ {run.cells[k].chan : k \in DOMAIN run.cells} = active_scan_mask
       /\ Len(run.cells) = Cardinality(active_scan_mask)

\* The handler has returned from a run that failed on the second of two
\* channels.
C2_Witness ==
  /\ h_pc = "idle"
  /\ active_scan_mask = {4, 15}
  /\ run.failed_at = 15
  /\ Len(run.cells) = 1
  /\ run.calls = <<"kfree", "iio_trigger_notify_done">>

\* C3: a buffer the handler allocated is freed exactly once by the same
\* invocation on every path, after the push when there is one; the handler
\* neither writes nor pushes memory that is not its live buffer, returns
\* with no buffer allocated, and calls no kfree when the allocation failed.
C3_BufferFreedExactlyOnce ==
  /\ ~run.stray
  /\ ~run.leaked
  /\ Cardinality(Calls("kfree")) <= 1
  /\ \A f \in Calls("kfree") :
       \A p \in Calls("iio_push_to_buffers") : p < f
  /\ Calls("kfree") # {} => run.alloc_ok /\ data.state # "live"
  /\ (run.alloc_ok /\ h_pc \in {"trigger_notify", "idle"}) =>
       Cardinality(Calls("kfree")) = 1
  /\ h_pc = "idle" => data = NoData
  /\ h_pc \in {"loop", "push", "free_data"} => data.state = "live"

\* The handler has returned from a run whose only channel failed: the buffer
\* was allocated, freed once and nothing was pushed.
C3_Witness ==
  /\ h_pc = "idle"
  /\ run.alloc_ok
  /\ run.failed_at = 3
  /\ run.cells = <<>>
  /\ run.calls = <<"kfree", "iio_trigger_notify_done">>

\* The storage bytes of a channel as the claim counts them (2 for the
\* calibration channels, 4 for the raw and processed ones) and their sum
\* over a set of channels.
Width(c) == IF c \in {3, 4, 14, 15} THEN 4 ELSE 2

RECURSIVE WidthSum(_)
WidthSum(S) ==
  IF S = {} THEN 0
  ELSE LET c == CHOOSE x \in S : TRUE
       IN Width(c) + WidthSum(S \ {c})

\* C4: under any active scan mask the handler stores one cell per active
\* channel in ascending position, the k-th cell for the k-th active channel
\* at the offset that is the sum of the storage bytes of the active channels
\* before it; the buffer has the sum of all active widths as its size, the
\* cursor stays within it, and a push hands over exactly that many bytes.
C4_CellsPackedInMaskOrder ==
  /\ ~run.stray
  /\ \A k \in DOMAIN run.cells :
       /\ run.cells[k].chan \in active_scan_mask
       /\ k = Cardinality({d \in active_scan_mask : d <= run.cells[k].chan})
       /\ run.cells[k].offset
            = WidthSum({d \in active_scan_mask : d < run.cells[k].chan})
  /\ data.state = "live" =>
       /\ data.size = WidthSum(active_scan_mask)
       /\ Len(data.bytes) = data.size
       /\ data_ptr <= data.size
       /\ data_ptr
            = WidthSum({run.cells[k].chan : k \in DOMAIN run.cells})
  /\ Calls("iio_push_to_buffers") # {} =>
       /\ Len(run.pushed) = WidthSum(active_scan_mask)
       /\ Len(run.cells) = Cardinality(active_scan_mask)

\* A run over all 16 channels has pushed its 40 bytes.
C4_Witness ==
  /\ active_scan_mask = 0..15
  /\ Len(run.cells) = 16
  /\ run.cells[16].offset = 36
  /\ Len(run.pushed) = 40
  /\ run.calls = <<"iio_push_to_buffers">>


\* The cell of n bytes at byte offset ptr of bytes, read in the byte order
\* of the host with the signedness sign, is the integer v.
CellDecodesTo(bytes, ptr, n, sign, v) ==
  /\ ptr + n <= Len(bytes)
  /\ IF sign = "s" THEN n = 2 => (v >= -32768 /\ v <= 32767)
     ELSE v >= 0 /\ (n = 2 => v <= 65535)
  /\ SubSeq(bytes, ptr + 1, ptr + n) = FromInt(v, n)

\* C5: every cell of a buffer under assembly, decoded in the byte order of
\* the host with the storage width and signedness declared for its channel,
\* is the integer the direct read returns for that channel under the same
\* bus response.
C5_CellDecodesToDirectRead ==
  data.state = "live" =>
    \A k \in 1..Len(run.cells) :
      LET c == run.cells[k]
          ch == bmp280_iio_channels[c.chan]
          d == bmp280_iio_read_raw(bmp280_ctx, ch, c.tr)
      IN /\ d.status >= 0
         /\ CellDecodesTo(data.bytes, c.offset, ch.storagebits \div 8,
                          ch.sign, ToS32(d.val))


\* The complete block reads of n bytes at reg in the bus log of the setup.
LoadedBlocks(reg, n) ==
  {bus_log[k].data : k \in {j \in DOMAIN bus_log : CompleteRead(bus_log[j], reg, n)}}

\* The 16 bit word at index idx (from 1) of a calibration block, low byte
\* first.
RawWord(block, idx) == block[2 * idx - 1] + 256 * block[2 * idx]

\* The word v stored by the parsing rule of index idx: the first of a group
\* as it is, the others as v - 65536 above 32767.
StoredAs(idx, v, stored) ==
  IF idx = 1 THEN stored = v /\ stored \in 0..65535
  ELSE /\ stored = (IF v <= 32767 THEN v ELSE v - 65536)
       /\ stored \in -32768..32767

\* C6: on a device that was set up, each temperature constant 1..3 and each
\* pressure constant 1..9 is the 16 bit word read for it at load time, kept
\* as it is for index 1 and reinterpreted as signed for the other indexes.
C6_CalibrationWordsParsed ==
  dev = "registered" =>
    /\ \A b \in LoadedBlocks(BMP280_TEMP_CALIBRATION_BASE_REG_ADDRESS, 6) :
         \A idx \in 1..3 :
           StoredAs(idx, RawWord(b, idx), bmp280_ctx.dig_T[idx])
    /\ \A b \in LoadedBlocks(BMP280_PRESS_CALIBRATION_BASE_REG_ADDRESS, 18) :
         \A idx \in 1..9 :
           StoredAs(idx, RawWord(b, idx), bmp280_ctx.dig_P[idx])

\* A device loaded from words at the ends of the 16 bit range: 65535 and
\* 32768 kept unsigned at index 1, 32768 and 65535 stored as -32768 and -1.
C6_Witness ==
  /\ dev = "registered"
  /\ LoadedBlocks(BMP280_TEMP_CALIBRATION_BASE_REG_ADDRESS, 6)
       = {<<255, 255, 0, 128, 255, 127>>}
  /\ Cardinality(LoadedBlocks(BMP280_PRESS_CALIBRATION_BASE_REG_ADDRESS, 18))
       = 1
  /\ bmp280_ctx.dig_T[1] = 65535
  /\ bmp280_ctx.dig_T[2] = -32768
  /\ bmp280_ctx.dig_T[3] = 32767
  /\ bmp280_ctx.dig_P[1] = 32768
  /\ bmp280_ctx.dig_P[2] = -1


\* The calibration block reads of the bus log that came back with a length
\* other than the one asked for.
ShortCalibrationReads ==
  {k \in DOMAIN bus_log :
     /\ bus_log[k].op = "read_block"
     /\ bus_log[k].reg \in {BMP280_TEMP_CALIBRATION_BASE_REG_ADDRESS,
                            BMP280_PRESS_CALIBRATION_BASE_REG_ADDRESS}
     /\ bus_log[k].ret # bus_log[k].arg}

\* C7: when a calibration block read returns a length other than the one
\* asked for, the probe fails with -EIO after that read, every calibration
\* constant is still the zero of the allocation, the device is not
\* registered, and no direct read, buffer or handler run exists on it.
C7_ShortCalibrationReadFailsSetup ==
  ShortCalibrationReads # {} =>
    /\ ShortCalibrationReads = {Len(bus_log)}
    /\ probe_status = -EIO
    /\ dev = "failed"
    /\ bmp280_ctx = ZeroCtx
    /\ last_read = NoRead
    /\ ~buffer_enabled
    /\ h_pc = "idle"
    /\ run = NoRun

\* The temperature block came back complete with constants other than zero
\* and the pressure block came back one byte short.
C7_Witness ==
  /\ Len(bus_log) = 5
  /\ CompleteRead(bus_log[4], BMP280_TEMP_CALIBRATION_BASE_REG_ADDRESS, 6)
  /\ bus_log[4].data = <<255, 255, 0, 128, 255, 127>>
  /\ bus_log[5].reg = BMP280_PRESS_CALIBRATION_BASE_REG_ADDRESS
  /\ bus_log[5].ret = 17
  /\ dev = "failed"


\* C8: the setup goes past the identity read only when that read returned
\* 0x58; for any other byte and for a failed read the probe fails with
\* -ENODEV and the identity read is the only bus operation: no write, no
\* calibration read, no second identity read.
C8_IdentityMismatchStopsSetup ==
  bus_log # <<>> =>
    /\ bus_log[1].op = "read_byte" /\ bus_log[1].reg = BMP280_ID_REG
    /\ bus_log[1].ret # BMP280_ID =>
         /\ probe_status = -ENODEV
         /\ dev = "failed"
         /\ Len(bus_log) = 1
         /\ bmp280_ctx = ZeroCtx
    /\ (dev = "registered" \/ Len(bus_log) > 1) => bus_log[1].ret = BMP280_ID

\* The identity read failed on the bus with -EIO.
C8_Witness ==
  /\ bus_log # <<>>
  /\ bus_log[1].ret = -EIO
  /\ probe_status = -ENODEV
  /\ dev = "failed"


\* The bus operation came back with a transport failure: a negative result,
\* or a block read of another length than the one asked for.
Failed(op) ==
  IF op.op = "read_block" THEN op.ret # op.arg ELSE op.ret < 0

FailedOps(log) == {k \in DOMAIN log : Failed(log[k])}

\* C9: a failed bus operation is reported by the operation that issued it:
\* the probe returns an error when an operation of the setup failed, the
\* direct read returns an error when its read failed, and a handler run
\* whose read failed stops at that channel.
C9_NoBusFailureSwallowed ==
  /\ FailedOps(bus_log) # {} => probe_status < 0
  /\ FailedOps(last_read.res.log) # {} => last_read.res.status < 0
  /\ FailedOps(run.log) # {} => run.failed_at >= 0


\* What the setup asked of the bus, in order: the operation, the register
\* and the byte written or the length asked for.
Issued(log) ==
  Tab([k \in 1..Len(log) |-> <<log[k].op, log[k].reg, log[k].arg>>],
      Len(log))

\* C10: a setup that succeeded issued exactly: read byte at 0xD0, write 0xA0
\* to 0xF5, write 0xB7 to 0xF4, block read of 6 bytes at 0x88, block read of
\* 18 bytes at 0x8E; and a calibration block read is only ever issued after
\* an identity read that returned 0x58.
C10_SetupBusSequence ==
  /\ (dev = "registered"
      \/ LoadedBlocks(BMP280_PRESS_CALIBRATION_BASE_REG_ADDRESS, 18) # {}) =>
       Issued(bus_log) = << <<"read_byte", 208, 0>>,
                            <<"write_byte", 245, 160>>,
                            <<"write_byte", 244, 183>>,
                            <<"read_block", 136, 6>>,
                            <<"read_block", 142, 18>> >>
  /\ \A k \in DOMAIN bus_log :
       bus_log[k].op = "read_block" =>
         /\ k > 1
         /\ bus_log[1].op = "read_byte" /\ bus_log[1].reg = 208
         /\ bus_log[1].ret = 88

\* A registered device, its setup of five bus operations behind it.
C10_Witness ==
  /\ dev = "registered"
  /\ Len(bus_log) = 5
  /\ LoadedBlocks(BMP280_PRESS_CALIBRATION_BASE_REG_ADDRESS, 18) # {}


\* No execution of the work item is in progress and none is queued.
WorkerQuiet == work_pc = "idle" /\ ~monitor.dwork_pending

Resolved_channels(cells) ==
  Tab([k \in 1..Len(cells) |-> cells[k].chan], Len(cells))

\* The members of S below n in ascending order.
Ascending(S, n) ==
  LET below(m) == Cardinality({j \in S : j < m})
  IN Tab([k \in 1..Cardinality({j \in S : j < n}) |->
            CHOOSE j \in S : j < n /\ below(j) = k - 1],
         Cardinality({j \in S : j < n}))

\* C22: the table has 16 entries, entry k has scan index k and a storage
\* width of 16 or 32 bits; while the buffer is enabled a run of the handler
\* has resolved the enabled channels below its loop position, each once and
\* in ascending order, all of them when it reaches the push; and a run stops
\* early only on a failed bus read, never on the storage width.
C22_TableOrderDrivesHandler ==
  /\ DOMAIN bmp280_iio_channels = 0..(num_channels - 1)
  /\ num_channels = 16
  /\ \A k \in DOMAIN bmp280_iio_channels :
       /\ bmp280_iio_channels[k].scan_index = k
       /\ bmp280_iio_channels[k].storagebits \in {16, 32}
  /\ (buffer_enabled /\ run.alloc_ok) =>
       /\ h_pc = "loop" =>
            /\ i \in active_scan_mask
            /\ Resolved_channels(run.cells) = Ascending(active_scan_mask, i)
       /\ (h_pc = "push" \/ Calls("iio_push_to_buffers") # {}) =>
            Resolved_channels(run.cells)
              = Ascending(active_scan_mask, num_channels)
       /\ run.failed_at >= 0 =>
            /\ run.failed_at \in active_scan_mask
            /\ Resolved_channels(run.cells)
                 = Ascending(active_scan_mask, run.failed_at)
            /\ FailedOps(run.log) # {}

\* A run under the mask of all 16 channels has stored its 16 cells.
C22_Witness ==
  /\ h_pc = "push"
  /\ active_scan_mask = 0..15
  /\ Len(run.cells) = 16
  /\ run.failed_at = -1

====
